---- MODULE Spec2Model ----
(***************************************************************************)
(* A model of flagit (src/flagit/flagit.py): quality flags for hourly      *)
(* soil-moisture observations.                                             *)
(*                                                                         *)
(* The table df is a function from column names to columns; a column is a  *)
(* function on Rows (0-based positions, as in the source).  Measurements   *)
(* are exact decimals held as integers in units of 1/Unit; a missing value *)
(* is NaN.  Quotients are held exactly as pairs <<numerator, denominator>> *)
(* with denominator >= 0: <<n, 0>> is +inf / -inf by the sign of n, and    *)
(* <<0, 0>> is the missing quotient.  Rounded quotients are integers in    *)
(* thousandths, with PosInf / NegInf / NaN.  Floating-point rounding error *)
(* of the underlying libraries is not modelled: all arithmetic is exact.   *)
(***************************************************************************)
EXTENDS Integers, Sequences, FiniteSets, TLC

VARIABLES df, qflag, hwsd, pc, applied, input

vars == <<df, qflag, hwsd, pc, applied, input>>

(***************************************************************************)
(* Bounds of the model.                                                    *)
(***************************************************************************)
\* number of rows of the table
NRows == 27
\* integer units per 1.0 of a measurement (resolution of the inputs)
Unit == 100
\* invocations of detectors in one run of the free-order specification
MaxCalls == 3

(***************************************************************************)
(* Constants of the program.                                               *)
(***************************************************************************)
low_boundary == 0
upper_boundary == 60
\* min_precipitation = 0.2, in tenths
min_precipitation_tenths == 2
\* rolling(window=25) of the rise detectors
StdWindow == 25
\* diff(24)
RiseLag == 24
\* rolling(window=24).sum() of gldas_precipitation
PrecipWindow == 24
\* np.ones(25), rolling(window=25, center=True)
SpikeWindow == 25
\* window[12] = 0, np.delete(x, (12))
Center == 12
\* rolling(min_periods=3, window=4, center=True)
PeakWindow == 4
PeakMinPeriods == 3

Rows == 0..(NRows - 1)

NaN == -(10^9)
PosInf == 2 * (10^9)
NegInf == -PosInf
NaNPair == <<0, 0>>

Max(a, b) == IF a >= b THEN a ELSE b
Min(a, b) == IF a <= b THEN a ELSE b
Abs(a) == IF a < 0 THEN -a ELSE a

\* float comparisons: any comparison with NaN is False
Gt(x, c) == x # NaN /\ c # NaN /\ x > c
Lt(x, c) == x # NaN /\ c # NaN /\ x < c

RECURSIVE SumRange(_, _, _)
\* sum of f[lo..hi], a missing value counting as 0 (skipna)
SumRange(f, lo, hi) ==
  IF lo > hi THEN 0
  ELSE (IF f[lo] = NaN THEN 0 ELSE f[lo]) + SumRange(f, lo + 1, hi)

RECURSIVE SumSqRange(_, _, _, _)
\* sum of (f[j] - c)^2 over the non-missing j in lo..hi
SumSqRange(f, c, lo, hi) ==
  IF lo > hi THEN 0
  ELSE (IF f[lo] = NaN THEN 0 ELSE (f[lo] - c) * (f[lo] - c))
       + SumSqRange(f, c, lo + 1, hi)

\* number of non-missing values of f in lo..hi
CountRange(f, lo, hi) == Cardinality({j \in lo..hi : f[j] # NaN})

(***************************************************************************)
(* pandas column operations                                                *)
(***************************************************************************)
\* Series.shift(k): row i takes the value of row i-k, rows shifted in are missing
ShiftCol(col, k, fill) ==
  [i \in Rows |-> IF (i - k) \in Rows THEN col[i - k] ELSE fill]

\* Series.diff(k)
DiffCol(col, k) ==
  [i \in Rows |-> IF (i - k) \in Rows /\ col[i] # NaN /\ col[i - k] # NaN
                  THEN col[i] - col[i - k] ELSE NaN]

\* Series.div(other): the exact quotient a/b as a pair with denominator >= 0
DivCol(a, b) ==
  [i \in Rows |-> IF a[i] = NaN \/ b[i] = NaN THEN NaNPair
                  ELSE IF b[i] < 0 THEN <<-a[i], -b[i]>> ELSE <<a[i], b[i]>>]

\* abs() of a column of quotients
AbsCol(col) == [i \in Rows |-> <<Abs(col[i][1]), col[i][2]>>]

\* round(q, 3) of a quotient q = n/d, in thousandths (round half to even)
Round3(q) ==
  LET n == q[1]
      d == q[2]
  IN IF d = 0
     THEN (IF n > 0 THEN PosInf ELSE IF n < 0 THEN NegInf ELSE NaN)
     ELSE LET m == 1000 * Abs(n)
              k == m \div d
              r == m % d
              a == IF 2 * r > d THEN k + 1
                   ELSE IF 2 * r = d THEN k + (k % 2)
                   ELSE k
          IN IF n < 0 THEN -a ELSE a

RoundCol3(col) == [i \in Rows |-> Round3(col[i])]

\* the table with column name set to col
SetCol(d, name, col) ==
  [c \in (DOMAIN d) \cup {name} |-> IF c = name THEN col ELSE d[c]]

\* a faulty variant: df.qflag[index] = {code}
AddFlag_Assign(q, index, code) ==
  [i \in Rows |-> IF i \in index THEN {code} ELSE q[i]]

\* df.qflag[index].apply(lambda x: x.add(code))
AddFlag(q, index, code) ==
  [i \in Rows |-> IF i \in index THEN q[i] \cup {code} ELSE q[i]]

(***************************************************************************)
(* apply_savgol: Savitzky-Golay, window 3, order 2, mode='nearest'.  The   *)
(* degree-2 fit through 3 samples interpolates them, so the derivatives at *)
(* the centre are the central differences.                                 *)
(***************************************************************************)
\* mode='nearest': the boundary sample is replicated
Nearest(col, i) == col[Max(0, Min(NRows - 1, i))]

Deriv1Col(sm) ==
  [i \in Rows |->
     IF Nearest(sm, i - 1) = NaN \/ sm[i] = NaN \/ Nearest(sm, i + 1) = NaN
     THEN NaNPair
     ELSE <<Nearest(sm, i + 1) - Nearest(sm, i - 1), 2>>]

Deriv2Col(sm) ==
  [i \in Rows |->
     IF Nearest(sm, i - 1) = NaN \/ sm[i] = NaN \/ Nearest(sm, i + 1) = NaN
     THEN NaN
     ELSE Nearest(sm, i - 1) - 2 * sm[i] + Nearest(sm, i + 1)]

apply_savgol(d) ==
  SetCol(SetCol(d, "deriv1", Deriv1Col(d["soil_moisture"])),
         "deriv2", Deriv2Col(d["soil_moisture"]))

(***************************************************************************)
(* Threshold flags C01..C03, D01..D03                                      *)
(***************************************************************************)
Index_c01(d) == {i \in Rows : Lt(d["soil_moisture"][i], low_boundary * Unit)}
Index_c02(d) == {i \in Rows : Gt(d["soil_moisture"][i], upper_boundary * Unit)}
\* "if not hwsd: return": None and 0 both skip the rule
Index_c03(d, h) ==
  IF h = NaN \/ h = 0 THEN {}
  ELSE {i \in Rows : Gt(d["soil_moisture"][i], h)}
\* the D01..D03 rules: column col present and its value below 0
IndexBelowZero(d, col) ==
  IF col \in DOMAIN d THEN {i \in Rows : Lt(d[col][i], 0)} ELSE {}

(***************************************************************************)
(* Rise without precipitation: D04 (in situ) and D05 (GLDAS)               *)
(***************************************************************************)
\* rolling(min_periods=1, window=25).std() * 2, held as its square n/d:
\* with k valid samples y (taken relative to their integer mean c, which
\* leaves the variance unchanged), var = (k*Q - S^2) / (k*(k-1)).
StdX2Col(sm) ==
  [i \in Rows |->
     LET lo == Max(0, i - (StdWindow - 1))
         k == CountRange(sm, lo, i)
     IN IF k < 2 THEN NaNPair
        ELSE LET c == SumRange(sm, lo, i) \div k
                 S == SumRange(sm, lo, i) - k * c
                 Q == SumSqRange(sm, c, lo, i)
             IN <<4 * (k * Q - S * S), k * (k - 1)>>]

\* x > s where s >= 0 is held as its square sq = n/d: for an integer x > 0,
\* x^2 > n/d exactly when x^2 > floor(n/d)
GtRoot(x, sq) ==
  x # NaN /\ sq # NaNPair /\ x > 0 /\ x * x > sq[1] \div sq[2]

\* a faulty variant: the 25-sample window of the standard deviation used for the sum
RollingSumCol_StdWindow(col) ==
  [i \in Rows |->
     LET lo == Max(0, i - (StdWindow - 1))
     IN IF CountRange(col, lo, i) < 1 THEN NaN ELSE SumRange(col, lo, i)]

\* rolling(min_periods=1, window=24).sum()
RollingSumCol(col) ==
  [i \in Rows |->
     LET lo == Max(0, i - (PrecipWindow - 1))
     IN IF CountRange(col, lo, i) < 1 THEN NaN ELSE SumRange(col, lo, i)]

\* a faulty variant: value <= min_precipitation
BelowMinPrecip_Inclusive(p) == p # NaN /\ 10 * p <= min_precipitation_tenths * Unit

\* value < min_precipitation
BelowMinPrecip(p) == p # NaN /\ 10 * p < min_precipitation_tenths * Unit

\* the columns flag_d04 writes
Cols_d04(d) ==
  SetCol(SetCol(SetCol(d, "std_x2", StdX2Col(d["soil_moisture"])),
                "rise24h", DiffCol(d["soil_moisture"], RiseLag)),
         "rise1h", DiffCol(d["soil_moisture"], 1))

\* the rows flag_d04 flags: none when the table has no precipitation column
Index_d04(d) ==
  IF "precipitation" \notin DOMAIN d THEN {}
  ELSE LET e == Cols_d04(d)
       IN {i \in Rows : /\ Gt(e["rise1h"][i], 0)
                        /\ GtRoot(e["rise24h"][i], e["std_x2"][i])
                        /\ BelowMinPrecip(e["precipitation"][i])}

\* a faulty variant: the 24-hour total also written over the precipitation column
Cols_d05_OverPrecipitation(d) ==
  SetCol(SetCol(SetCol(SetCol(SetCol(d, "gl_std_x2", StdX2Col(d["soil_moisture"])),
                              "gl_rise24h", DiffCol(d["soil_moisture"], RiseLag)),
                       "gl_rise1h", DiffCol(d["soil_moisture"], 1)),
                "gldas_precipitation_total", RollingSumCol(d["gldas_precipitation"])),
         "precipitation", RollingSumCol(d["gldas_precipitation"]))

\* the columns flag_d05 writes
Cols_d05(d) ==
  SetCol(SetCol(SetCol(SetCol(d, "gl_std_x2", StdX2Col(d["soil_moisture"])),
                       "gl_rise24h", DiffCol(d["soil_moisture"], RiseLag)),
                "gl_rise1h", DiffCol(d["soil_moisture"], 1)),
         "gldas_precipitation_total", RollingSumCol(d["gldas_precipitation"]))

\* the rows flag_d05 flags: none when the table has no gldas_precipitation column
Index_d05(d) ==
  IF "gldas_precipitation" \notin DOMAIN d THEN {}
  ELSE LET e == Cols_d05(d)
       IN {i \in Rows : /\ Gt(e["gl_rise1h"][i], 0)
                        /\ GtRoot(e["gl_rise24h"][i], e["gl_std_x2"][i])
                        /\ BelowMinPrecip(e["gldas_precipitation_total"][i])}

(***************************************************************************)
(* Spike detector D06                                                      *)
(***************************************************************************)
\* the window of col a rolling(window=w, center=True) pass sees at row i: the
\* rows i-(w-1)+off .. i+off with off = (w-1) \div 2, cut at the table's ends
WinLo(i, w) == Max(0, i - (w - 1) + ((w - 1) \div 2))
WinHi(i, w) == Min(NRows - 1, i + ((w - 1) \div 2))
\* a faulty variant: a window cut at the table's ends counts as full
FullWindow_Cut(col, i, w) ==
  CountRange(col, WinLo(i, w), WinHi(i, w)) = WinHi(i, w) - WinLo(i, w) + 1

\* min_periods = window: all w rows exist and none is missing
FullWindow(col, i, w) ==
  /\ i - (w - 1) + ((w - 1) \div 2) >= 0
  /\ i + ((w - 1) \div 2) <= NRows - 1
  /\ CountRange(col, WinLo(i, w), WinHi(i, w)) = w

\* rolling_var(x): the variance of the window's samples without the one at
\* position 12, divisor len(x) - 1, as the pair (k*Q - S^2) / (k*(k-1)) over
\* the k samples kept, taken relative to their integer mean c
rolling_var(col, i) ==
  LET lo == WinLo(i, SpikeWindow)
      hi == WinHi(i, SpikeWindow)
      kept == [j \in lo..hi |-> IF j = lo + Center THEN NaN ELSE col[j]]
      k == CountRange(kept, lo, hi)
      c == SumRange(kept, lo, hi) \div k
      S == SumRange(kept, lo, hi) - k * c
      Q == SumSqRange(kept, c, lo, hi)
  IN <<k * Q - S * S, k * (k - 1)>>

\* rolling(window=np.ones(25) with window[12] = 0, center=True).mean(): the
\* weighted mean sum(w*x) / sum(w) as a pair, in units of 1/Unit
boxcar_mean(col, i) ==
  LET lo == WinLo(i, SpikeWindow)
      hi == WinHi(i, SpikeWindow)
      kept == [j \in lo..hi |-> IF j = lo + Center THEN 0 ELSE col[j]]
  IN <<SumRange(kept, lo, hi), SpikeWindow - 1>>

\* a faulty variant: peak(x) without the two-hour branch
peak_OneHour(x) ==
  IF \/ (Lt(x[1], x[2]) /\ Gt(x[2], x[3]))
     \/ (Gt(x[1], x[2]) /\ Lt(x[2], x[3]))
  THEN 1
  ELSE 0

\* peak(x): x is the raw window, a tuple (x[1] here is x[0] of the source)
peak(x) ==
  IF \/ (Lt(x[1], x[2]) /\ Gt(x[2], x[3]))
     \/ (Gt(x[1], x[2]) /\ Lt(x[2], x[3]))
  THEN 1
  ELSE IF /\ Len(x) > 3
          /\ \/ (Lt(x[1], x[2]) /\ x[2] # NaN /\ x[2] = x[3] /\ Gt(x[3], x[4]))
             \/ (Gt(x[1], x[2]) /\ x[2] # NaN /\ x[2] = x[3] /\ Lt(x[3], x[4]))
       THEN 2
       ELSE 0

\* a faulty variant: the closing shift(1) left out
Criteria1Col_NoShift(d) ==
  RoundCol3(DivCol(ShiftCol(d["soil_moisture"], -1, NaN), d["soil_moisture"]))

\* round(sm.shift(-1).div(sm).shift(1), 3)
Criteria1Col(d) ==
  RoundCol3(ShiftCol(DivCol(ShiftCol(d["soil_moisture"], -1, NaN),
                            d["soil_moisture"]),
                     1, NaNPair))

\* a faulty variant: the quotient taken the other way round
Criteria2Col_Inverse(d) ==
  RoundCol3(AbsCol(ShiftCol(DivCol(ShiftCol(d["deriv2"], -2, NaN), d["deriv2"]),
                            1, NaNPair)))

\* round(abs(deriv2.div(deriv2.shift(-2)).shift(1)), 3)
Criteria2Col(d) ==
  RoundCol3(AbsCol(ShiftCol(DivCol(d["deriv2"], ShiftCol(d["deriv2"], -2, NaN)),
                            1, NaNPair)))

\* abs(rolling(min_periods=25, window=25, center=True).apply(rolling_var))
\*   .div(rolling(window, center=True).mean()):
\* var / mean = ((kQ - S^2) / (k(k-1) Unit^2)) / (M / (k Unit)) with k = 24
\* kept samples on both sides, i.e. the pair (kQ - S^2) / ((k-1) Unit M)
Criteria3Col(d) ==
  [i \in Rows |->
     IF ~FullWindow(d["soil_moisture"], i, SpikeWindow) THEN NaNPair
     ELSE LET v == rolling_var(d["soil_moisture"], i)
              m == boxcar_mean(d["soil_moisture"], i)
              den == (m[2] - 1) * Unit * m[1]
          IN IF den < 0 THEN <<-Abs(v[1]), -den>> ELSE <<Abs(v[1]), den>>]

\* rolling(min_periods=3, window=4, center=True).apply(peak, raw=True)
PeakCol(sm) ==
  [i \in Rows |->
     LET lo == WinLo(i, PeakWindow)
         hi == WinHi(i, PeakWindow)
     IN IF CountRange(sm, lo, hi) < PeakMinPeriods THEN NaN
        ELSE peak([j \in 1..(hi - lo + 1) |-> sm[lo + j - 1]])]

\* ... .shift(-1)
Criteria4Col(d) == ShiftCol(PeakCol(d["soil_moisture"]), -1, NaN)

\* a faulty variant: df.criteria4.shift(1) > 0.1
Spike2hCol_AnyPeak(c4) ==
  [i \in Rows |-> LET x == ShiftCol(c4, 1, NaN)[i] IN x # NaN /\ 10 * x > 1]

\* df.criteria4.shift(1) > 1.1
Spike2hCol(c4) ==
  [i \in Rows |-> LET x == ShiftCol(c4, 1, NaN)[i] IN x # NaN /\ 10 * x > 11]

\* q < 1 for a quotient q
LtOne(q) == q[2] # 0 /\ q[1] < q[2]

\* ((criteria1 > 1.15) | (criteria1 < 0.85) | spike_2h) &
\* (criteria2 > 0.8) & (criteria2 < 1.2) & (criteria3 < 1) & (criteria4 > 0)
SpikeCol(c1, c2, c3, c4, s2h) ==
  [i \in Rows |-> /\ (Gt(c1[i], 1150) \/ Lt(c1[i], 850) \/ s2h[i])
                  /\ Gt(c2[i], 800) /\ Lt(c2[i], 1200)
                  /\ LtOne(c3[i])
                  /\ Gt(c4[i], 0)]

\* the columns flag_d06 writes
Cols_d06(d) ==
  LET c1 == Criteria1Col(d)
      c2 == Criteria2Col(d)
      c3 == Criteria3Col(d)
      c4 == Criteria4Col(d)
      s2h == Spike2hCol(c4)
      e == SetCol(SetCol(SetCol(SetCol(SetCol(d, "criteria1", c1),
                                       "criteria2", c2),
                                "criteria3", c3),
                         "criteria4", c4),
                  "spike_2h", s2h)
  IN SetCol(e, "spike", SpikeCol(e["criteria1"], e["criteria2"], e["criteria3"],
                                 e["criteria4"], e["spike_2h"]))

\* (spike > 0) | ((spike.shift(1) > 0) & (spike_2h > 0))
Index_d06(d) ==
  LET e == Cols_d06(d)
  IN {i \in Rows : \/ e["spike"][i]
                   \/ (ShiftCol(e["spike"], 1, FALSE)[i] /\ e["spike_2h"][i])}

(***************************************************************************)
(* The operations.  pc = "free": the detectors are called one by one, in   *)
(* any order (as the tests do); otherwise pc is the step flagit(df) is at. *)
(* applied and input are history: the detectors that have run, and the     *)
(* table as it was given.                                                  *)
(***************************************************************************)
\* the step after step s of flagit(df)
NextStep(s) ==
  CASE s = "c01" -> "c02" [] s = "c02" -> "c03" [] s = "c03" -> "d01"
    [] s = "d01" -> "d02" [] s = "d02" -> "d03" [] s = "d03" -> "d04"
    [] s = "d04" -> "d05" [] s = "d05" -> "d06" [] s = "d06" -> "done"
    [] OTHER -> s

\* a detector called directly, or flagit(df) arriving at it
At(s) == pc = "free" \/ pc = s
Advance(s) ==
  /\ pc' = IF pc = "free" THEN "free" ELSE NextStep(s)
  /\ applied' = applied \cup {s}
  /\ UNCHANGED <<hwsd, input>>

Call_apply_savgol ==
  /\ pc = "free"
  /\ df' = apply_savgol(df)
  /\ applied' = applied \cup {"savgol"}
  /\ UNCHANGED <<qflag, hwsd, pc, input>>

flag_c01 ==
  /\ At("c01")
  /\ qflag' = AddFlag(qflag, Index_c01(df), 1)
  /\ UNCHANGED df
  /\ Advance("c01")

flag_c02 ==
  /\ At("c02")
  /\ qflag' = AddFlag(qflag, Index_c02(df), 2)
  /\ UNCHANGED df
  /\ Advance("c02")

\* flagit(df) calls flag_c03(df) with hwsd=None; a direct call passes hwsd
flag_c03 ==
  /\ At("c03")
  /\ qflag' = AddFlag(qflag, Index_c03(df, IF pc = "free" THEN hwsd ELSE NaN), 3)
  /\ UNCHANGED df
  /\ Advance("c03")

flag_d01 ==
  /\ At("d01")
  /\ qflag' = AddFlag(qflag, IndexBelowZero(df, "soil_temperature"), 4)
  /\ UNCHANGED df
  /\ Advance("d01")

flag_d02 ==
  /\ At("d02")
  /\ qflag' = AddFlag(qflag, IndexBelowZero(df, "air_temperature"), 5)
  /\ UNCHANGED df
  /\ Advance("d02")

flag_d03 ==
  /\ At("d03")
  /\ qflag' = AddFlag(qflag, IndexBelowZero(df, "gldas_soil_temperature"), 6)
  /\ UNCHANGED df
  /\ Advance("d03")

flag_d04 ==
  /\ At("d04")
  /\ df' = IF "precipitation" \in DOMAIN df THEN Cols_d04(df) ELSE df
  /\ qflag' = AddFlag(qflag, Index_d04(df), 7)
  /\ Advance("d04")

flag_d05 ==
  /\ At("d05")
  /\ df' = IF "gldas_precipitation" \in DOMAIN df THEN Cols_d05(df) ELSE df
  /\ qflag' = AddFlag(qflag, Index_d05(df), 8)
  /\ Advance("d05")

\* df.deriv2 (line 192) raises AttributeError when apply_savgol has not run;
\* criteria1 (line 190) is already assigned by then
flag_d06 ==
  /\ At("d06")
  /\ IF "deriv2" \in DOMAIN df
     THEN /\ df' = Cols_d06(df)
          /\ qflag' = AddFlag(qflag, Index_d06(df), 9)
          /\ Advance("d06")
     ELSE /\ df' = SetCol(df, "criteria1", Criteria1Col(df))
          /\ pc' = "error"
          /\ UNCHANGED <<qflag, hwsd, applied, input>>

(***************************************************************************)
(* Input tables                                                            *)
(***************************************************************************)
ConstCol(v) == [i \in Rows |-> v]
\* baseline b with w samples of value e from row t on
SpikeSeries(b, t, e, w) == [i \in Rows |-> IF i >= t /\ i < t + w THEN e ELSE b]
\* b at row 0, changing by s every row
Ramp(b, s) == [i \in Rows |-> b + s * i]
\* col with row r set to v
WithRow(col, r, v) == [i \in Rows |-> IF i = r THEN v ELSE col[i]]

Table(sm) == [c \in {"soil_moisture"} |-> sm]

Start(d, h, p) ==
  /\ df = d
  /\ input = d
  /\ qflag = [i \in Rows |-> {}]
  /\ hwsd = h
  /\ pc = p
  /\ applied = {}

(***************************************************************************)
(* Spike detector on its own: apply_savgol and flag_d06 on series with one *)
(* or two elevated (or missing) samples and one more odd sample elsewhere. *)
(***************************************************************************)
SpikeBase == 20 * Unit + 1
SpikeValues == {SpikeBase + 301, SpikeBase + 302, SpikeBase + 555, SpikeBase + 999,
                SpikeBase - 301, SpikeBase - 302, 0, -Unit, NaN}
OddValues == {SpikeBase, SpikeBase + 50, NaN}
SpikeInputs ==
  {WithRow(SpikeSeries(SpikeBase, t, e, w), r, f) :
     t \in Rows, e \in SpikeValues, w \in {1, 2},
     r \in {0, 1, Center, NRows - 2, NRows - 1}, f \in OddValues}

InitSpike == \E sm \in SpikeInputs : Start(Table(sm), NaN, "free")
NextSpike == Call_apply_savgol \/ flag_d06
SpecSpike == InitSpike /\ [][NextSpike]_vars

(***************************************************************************)
(* Claims about the spike detector (under SpecSpike)                       *)
(***************************************************************************)
SM == input["soil_moisture"]
Ran(s) == s \in applied
Flagged(i, code) == i \in Rows /\ code \in qflag[i]

\* row t holds a single sample off a constant positive baseline over t-12..t+12
SingleSpikeAt(t) ==
  /\ t >= Center /\ t <= NRows - 1 - Center
  /\ SM[t] # NaN /\ SM[t - 1] # NaN /\ SM[t - 1] > 0
  /\ \A j \in (t - Center)..(t + Center) : j # t => SM[j] = SM[t - 1]

\* C2 as stated: a single-hour spike with e/b > 1.15 or e/b < 0.85 is flagged 9
\* at t, and neither t-1 nor t+1 is.
C2_Original ==
  Ran("d06") =>
    \A t \in Rows :
      (SingleSpikeAt(t) /\ (100 * SM[t] > 115 * SM[t - 1] \/ 100 * SM[t] < 85 * SM[t - 1]))
        => (Flagged(t, 9) /\ ~Flagged(t - 1, 9) /\ ~Flagged(t + 1, 9))

\* C2 amended: a single-hour spike whose ratio e/b, rounded to 3 decimals, is
\* > 1.15 or < 0.85 is flagged 9 at t, and neither t-1 nor t+1 is.
C2_SingleSpike ==
  Ran("d06") =>
    \A t \in Rows :
      (SingleSpikeAt(t) /\ (Round3(<<SM[t], SM[t - 1]>>) > 1150
                            \/ Round3(<<SM[t], SM[t - 1]>>) < 850))
        => (Flagged(t, 9) /\ ~Flagged(t - 1, 9) /\ ~Flagged(t + 1, 9))

C2_Witness ==
  /\ Ran("d06")
  /\ \E t \in Rows : /\ SingleSpikeAt(t)
                     /\ Round3(<<SM[t], SM[t - 1]>>) > 1150
                     /\ Flagged(t, 9)

\* rows t, t+1 hold a two-sample plateau above both neighbours
PlateauAt(t) ==
  /\ t >= 1 /\ t + 2 <= NRows - 1
  /\ SM[t - 1] # NaN /\ SM[t] # NaN /\ SM[t + 1] # NaN /\ SM[t + 2] # NaN
  /\ SM[t - 1] < SM[t] /\ SM[t] = SM[t + 1] /\ SM[t + 1] > SM[t + 2]

\* criteria1..3 of the spike rule hold at row t of the table
Criteria123(t) ==
  /\ (Gt(df["criteria1"][t], 1150) \/ Lt(df["criteria1"][t], 850))
  /\ Gt(df["criteria2"][t], 800) /\ Lt(df["criteria2"][t], 1200)
  /\ LtOne(df["criteria3"][t])

\* C3: a two-hour plateau that satisfies criteria1-3 at its first hour t is
\* flagged 9 at its second hour t+1, through spike[t] and spike_2h[t+1], while
\* spike[t+1] is false because criteria4[t+1] = 0.
C3_Plateau ==
  Ran("d06") =>
    \A t \in Rows :
      (PlateauAt(t) /\ Criteria123(t))
        => /\ Flagged(t + 1, 9)
           /\ df["spike"][t] /\ df["spike_2h"][t + 1]
           /\ ~df["spike"][t + 1] /\ df["criteria4"][t + 1] = 0

C3_Witness ==
  /\ Ran("d06")
  /\ \E t \in Rows : /\ PlateauAt(t) /\ Criteria123(t) /\ Flagged(t + 1, 9)
                     /\ \A j \in Rows \ {t, t + 1} : SM[j] = SM[t - 1]

\* C4 as stated: no row among the first 12 or the last 12 is ever flagged 9.
C4_Original ==
  \A i \in Rows : (i < Center \/ i >= NRows - Center) => ~Flagged(i, 9)

\* C4 amended: no row among the first 12 or the last 11 is ever flagged 9, and
\* row n-12 is flagged 9 only as the second hour of a two-hour spike whose first
\* hour n-13 has a full window (spike[n-12] itself is false).
C4_Edges ==
  /\ \A i \in Rows : (i < Center \/ i > NRows - Center) => ~Flagged(i, 9)
  /\ Ran("d06") =>
       /\ ~df["spike"][NRows - Center]
       /\ Flagged(NRows - Center, 9)
            => (df["spike"][NRows - Center - 1] /\ df["spike_2h"][NRows - Center])

C4_Witness ==
  /\ Ran("d06")
  /\ Flagged(NRows - Center, 9)
  /\ df["spike"][NRows - Center - 1]
  /\ ~Flagged(NRows - Center + 1, 9)

\* the quotient a/b of two numbers, as a pair with denominator >= 0
Quot(a, b) == IF b < 0 THEN <<-a, -b>> ELSE <<a, b>>

\* C9 as stated: criteria1[t] is sm[t+1] / sm[t-1] rounded to 3 decimals.
C9_Original ==
  Ran("d06") =>
    \A t \in Rows :
      (t >= 1 /\ t + 1 <= NRows - 1 /\ SM[t - 1] # NaN /\ SM[t] # NaN
       /\ SM[t + 1] # NaN /\ SM[t - 1] > 0)
        => df["criteria1"][t] = Round3(<<SM[t + 1], SM[t - 1]>>)

\* C9 amended: criteria1[t] is sm[t] / sm[t-1] (this hour over the previous
\* hour) rounded to 3 decimals, and a row that is a spike without being the
\* second hour of a plateau has that rounded ratio > 1.15 or < 0.85.
C9_Criteria1 ==
  Ran("d06") =>
    \A t \in Rows :
      (t >= 1 /\ SM[t - 1] # NaN /\ SM[t] # NaN)
        => /\ df["criteria1"][t] = Round3(Quot(SM[t], SM[t - 1]))
           /\ (df["spike"][t] /\ ~df["spike_2h"][t])
                => (Round3(Quot(SM[t], SM[t - 1])) > 1150
                    \/ Round3(Quot(SM[t], SM[t - 1])) < 850)

C9_Witness ==
  /\ Ran("d06")
  /\ \E t \in Rows : /\ t >= 1 /\ t + 1 <= NRows - 1
                     /\ SM[t - 1] # NaN /\ SM[t] # NaN /\ SM[t + 1] # NaN
                     /\ df["spike"][t] /\ ~df["spike_2h"][t]
                     /\ df["criteria1"][t] > 1150
                     /\ Round3(<<SM[t + 1], SM[t - 1]>>) = 1000

\* sm[i-1] - 2*sm[i] + sm[i+1] with the boundary sample replicated, missing
\* when one of the three is
D2(i) ==
  IF Nearest(SM, i - 1) = NaN \/ SM[i] = NaN \/ Nearest(SM, i + 1) = NaN THEN NaN
  ELSE Nearest(SM, i - 1) - 2 * SM[i] + Nearest(SM, i + 1)
\* |a / b| for two values of deriv2
AbsQuot(a, b) == IF a = NaN \/ b = NaN THEN NaNPair ELSE <<Abs(a), Abs(b)>>
NoMissing == \A i \in Rows : SM[i] # NaN

\* C10 as stated: criteria2[t] is |deriv2[t+1] / deriv2[t-1]| rounded to 3
\* decimals.
C10_Original ==
  Ran("d06") =>
    \A t \in Rows :
      (t >= 1 /\ t + 1 <= NRows - 1)
        => df["criteria2"][t] = Round3(AbsQuot(D2(t + 1), D2(t - 1)))

\* C10 amended: criteria2[t] is |deriv2[t-1] / deriv2[t+1]| (numerator t-1,
\* denominator t+1) rounded to 3 decimals, with deriv2[i] = sm[i-1] - 2*sm[i] +
\* sm[i+1], and a row is a spike only if that value is > 0.8 and < 1.2.
C10_Criteria2 ==
  Ran("d06") =>
    \A t \in Rows :
      /\ df["deriv2"][t] = D2(t)
      /\ (t >= 1 /\ t + 1 <= NRows - 1)
           => df["criteria2"][t] = Round3(AbsQuot(D2(t - 1), D2(t + 1)))
      /\ df["spike"][t]
           => /\ t >= 1 /\ t + 1 <= NRows - 1
              /\ Round3(AbsQuot(D2(t - 1), D2(t + 1))) # NaN
              /\ Round3(AbsQuot(D2(t - 1), D2(t + 1))) > 800
              /\ Round3(AbsQuot(D2(t - 1), D2(t + 1))) < 1200

C10_Witness ==
  /\ Ran("d06") /\ NoMissing
  /\ \E t \in Rows : /\ t >= 1 /\ t + 1 <= NRows - 1
                     /\ D2(t + 1) # 0 /\ D2(t - 1) # 0
                     /\ df["spike"][t] /\ Flagged(t, 9)
                     /\ df["criteria2"][t] < 1000
                     /\ Round3(AbsQuot(D2(t + 1), D2(t - 1))) > 1200

(***************************************************************************)
(* The rise detectors on their own: flag_d04 and flag_d05 on a baseline    *)
(* with a step at row t and one more odd (or missing) sample, both         *)
(* precipitation columns holding one pulse.                                *)
(***************************************************************************)
RiseBase == 20 * Unit
RiseSteps == {-10, 0, 10, 60}
RiseOdd == {RiseBase, RiseBase + 100, NaN}
RiseInputs ==
  {WithRow(SpikeSeries(RiseBase, t, RiseBase + s, NRows), r, f) :
     t \in (RiseLag - 1)..(NRows - 1), s \in RiseSteps,
     r \in {0, 2, RiseLag - 2, RiseLag}, f \in RiseOdd}
PrecipInputs ==
  {WithRow(ConstCol(0), q, v) :
     q \in {0, 1, 2, 3, RiseLag, RiseLag + 1}, v \in {0, 10, 20, NaN}}
   \cup {ConstCol(NaN)}

RiseTable(sm, p) ==
  [c \in {"soil_moisture", "precipitation", "gldas_precipitation"} |->
     IF c = "soil_moisture" THEN sm ELSE p]

InitRise ==
  \E sm \in RiseInputs, p \in PrecipInputs : Start(RiseTable(sm, p), NaN, "free")
NextRise == flag_d04 \/ flag_d05
SpecRise == InitRise /\ [][NextRise]_vars

RECURSIVE SetSum(_, _)
\* the sum of f over the set S
SetSum(f, S) ==
  IF S = {} THEN 0
  ELSE LET x == CHOOSE x \in S : TRUE IN f[x] + SetSum(f, S \ {x})

\* rise1h[t] = sm[t] - sm[t-1] > 0
Rise1h(t) == t >= 1 /\ SM[t] # NaN /\ SM[t - 1] # NaN /\ SM[t] - SM[t - 1] > 0

\* rise24h[t] = sm[t] - sm[t-24] > twice the sample standard deviation of the
\* samples present among the 25 ending at t: with k samples of sum S,
\* r > 2*sqrt(sum (x - S/k)^2 / (k-1))  iff  r > 0 and
\* r^2 * k^2 * (k-1) > 4 * sum (k*x - S)^2
Rise24h(t) ==
  /\ t >= 24 /\ SM[t] # NaN /\ SM[t - 24] # NaN
  /\ LET r == SM[t] - SM[t - 24]
         W == {j \in (t - 24)..t : SM[j] # NaN}
         k == Cardinality(W)
         S == SetSum(SM, W)
         D == SetSum([j \in W |-> (k * SM[j] - S) * (k * SM[j] - S)], W)
     IN r > 0 /\ r * r * k * k * (k - 1) > 4 * D

\* precipitation[t] < 0.2
Precip7(t) ==
  input["precipitation"][t] # NaN /\ 5 * input["precipitation"][t] < Unit

\* the sum of the gldas_precipitation samples present among the 24 ending at t
\* is < 0.2
Precip8(t) ==
  LET W == {j \in Rows : j >= t - 23 /\ j <= t /\ input["gldas_precipitation"][j] # NaN}
  IN W # {} /\ 5 * SetSum(input["gldas_precipitation"], W) < Unit

MonoBase == 20 * Unit
MonoSlopes == {-10, -3, 3, 10}
MonoKinks == {0, Center, RiseLag - 1, RiseLag, NRows - 1}
MonoInputs ==
  {[i \in Rows |-> MonoBase + s * Min(i, t)] : s \in MonoSlopes, t \in MonoKinks}
  \cup {[i \in Rows |-> MonoBase + s * Max(0, i - t)] : s \in MonoSlopes, t \in MonoKinks}
  \cup {SpikeSeries(MonoBase, t, MonoBase + d, NRows) :
          t \in MonoKinks, d \in {-400, -10, 10, 400}}
MonoPrecip ==
  {ConstCol(0), ConstCol(20), WithRow(ConstCol(0), RiseLag, 20),
   WithRow(ConstCol(0), NRows - 1, NaN)}

InitMono ==
  \E sm \in MonoInputs, p \in MonoPrecip : Start(RiseTable(sm, p), NaN, "free")
NextMono == Call_apply_savgol \/ flag_d04 \/ flag_d05 \/ flag_d06
SpecMono == InitMono /\ [][NextMono]_vars

Monotonic ==
  \/ \A i \in Rows : i >= 1 => SM[i - 1] <= SM[i]
  \/ \A i \in Rows : i >= 1 => SM[i - 1] >= SM[i]

\* C5 as stated: on a monotonic series without missing values none of
\* flag_d04, flag_d05, flag_d06 adds its code to any row.
C5_Original ==
  (NoMissing /\ Monotonic) =>
    \A i \in Rows : ~Flagged(i, 7) /\ ~Flagged(i, 8) /\ ~Flagged(i, 9)

\* C5 amended: on a monotonic series without missing values flag_d06 adds 9
\* to no row, and flag_d04 (flag_d05) adds 7 (8) only to a row that rises over
\* the previous one and whose precipitation signal is < 0.2; so a series that
\* never rises gets none of the three codes.
C5_Monotonic ==
  (NoMissing /\ Monotonic) =>
    \A i \in Rows :
      /\ ~Flagged(i, 9)
      /\ Flagged(i, 7) => (i >= 1 /\ SM[i] > SM[i - 1] /\ Precip7(i))
      /\ Flagged(i, 8) => (i >= 1 /\ SM[i] > SM[i - 1] /\ Precip8(i))

C5_Witness ==
  /\ NoMissing /\ Monotonic
  /\ Ran("d04") /\ Ran("d05") /\ Ran("d06")
  /\ \A i \in Rows : i >= 1 => SM[i] > SM[i - 1]
  /\ \E i \in Rows : Flagged(i, 7) /\ Flagged(i, 8)
  /\ \E i \in Rows : i >= RiseLag /\ ~Flagged(i, 7) /\ ~Precip7(i)

(***************************************************************************)
(* Any detectors in any order, any number of times, on tables whose        *)
(* derivatives are computed.                                               *)
(***************************************************************************)
RawCols ==
  {"soil_moisture", "soil_temperature", "air_temperature",
   "gldas_soil_temperature", "precipitation", "gldas_precipitation"}

FreeSeries ==
  {SpikeSeries(20 * Unit, Center + 1, 25 * Unit, 1),
   WithRow(SpikeSeries(20 * Unit, RiseLag + 1, 20 * Unit + 60, NRows), 0, -Unit),
   WithRow(Ramp(40 * Unit, 10), 3, 61 * Unit)}
\* a temperature column with frost at row r
Frost(r) == WithRow(ConstCol(5 * Unit), r, -Unit)
FullTable(sm) ==
  [c \in {"soil_moisture", "soil_temperature", "air_temperature",
          "gldas_soil_temperature", "precipitation", "gldas_precipitation"} |->
     CASE c = "soil_moisture" -> sm
       [] c = "soil_temperature" -> Frost(4)
       [] c = "air_temperature" -> Frost(RiseLag + 1)
       [] c = "gldas_soil_temperature" -> WithRow(Frost(0), Center + 1, NaN)
       [] c = "precipitation" -> WithRow(ConstCol(0), RiseLag + 2, 30)
       [] c = "gldas_precipitation" -> WithRow(ConstCol(0), 2, 30)]
\* the table d with only the columns of S
Restrict(d, S) == [c \in S |-> d[c]]
\* the columns of the table and the saturation point passed to flag_c03
FreeSetups ==
  {<<{"soil_moisture"}, NaN>>, <<RawCols, 0>>, <<RawCols, 22 * Unit>>}

Init ==
  \E sm \in FreeSeries, u \in FreeSetups :
    Start(apply_savgol(Restrict(FullTable(sm), u[1])), u[2], "free")
\* at most MaxCalls different operations in one run
Within == Cardinality(applied') <= MaxCalls
Next ==
  \/ Call_apply_savgol /\ Within
  \/ flag_c01 /\ Within
  \/ flag_c02 /\ Within
  \/ flag_c03 /\ Within
  \/ flag_d01 /\ Within
  \/ flag_d02 /\ Within
  \/ flag_d03 /\ Within
  \/ flag_d04 /\ Within
  \/ flag_d05 /\ Within
  \/ flag_d06 /\ Within
Spec == Init /\ [][Next]_vars

\* the rows detector s flags on table d, and its code
IndexOf(s, d, h) ==
  CASE s = "c01" -> Index_c01(d)
    [] s = "c02" -> Index_c02(d)
    [] s = "c03" -> Index_c03(d, h)
    [] s = "d01" -> IndexBelowZero(d, "soil_temperature")
    [] s = "d02" -> IndexBelowZero(d, "air_temperature")
    [] s = "d03" -> IndexBelowZero(d, "gldas_soil_temperature")
    [] s = "d04" -> Index_d04(d)
    [] s = "d05" -> Index_d05(d)
    [] s = "d06" -> Index_d06(d)
    [] OTHER -> {}
CodeOf(s) ==
  CASE s = "c01" -> 1 [] s = "c02" -> 2 [] s = "c03" -> 3
    [] s = "d01" -> 4 [] s = "d02" -> 5 [] s = "d03" -> 6
    [] s = "d04" -> 7 [] s = "d05" -> 8 [] s = "d06" -> 9
    [] OTHER -> 0

\* C6: whatever the order and the number of the invocations so far, each row's
\* qflag is the set of the codes of the detectors that have run at least once
\* and whose rule, evaluated on the table as given, selects the row.
C6_OrderIndependent ==
  \A i \in Rows :
    qflag[i] = {CodeOf(s) : s \in {x \in applied \ {"savgol"} : i \in IndexOf(x, input, hwsd)}}

C6_Witness ==
  /\ Cardinality(applied) >= 3
  /\ Ran("d04") /\ Ran("d05")
  /\ \E i \in Rows : qflag[i] = {5, 7}
  /\ "gldas_precipitation_total" \in DOMAIN df

\* C7: every invocation leaves each raw column as it was (present or absent,
\* and its values), and each row's qflag after it is a superset of the one
\* before it.
C7_AdditiveOnly ==
  [][/\ \A c \in RawCols : /\ (c \in DOMAIN df) <=> (c \in DOMAIN df')
                           /\ c \in DOMAIN df => df'[c] = df[c]
     /\ \A i \in Rows : qflag[i] \subseteq qflag'[i]]_vars

C7_Witness ==
  /\ \E i \in Rows : Cardinality(qflag[i]) >= 2
  /\ "std_x2" \in DOMAIN df
  /\ \A c \in RawCols \cap DOMAIN input : df[c] = input[c]

(***************************************************************************)
(* flagit(df) on a table as loaded: soil_moisture and any of the optional  *)
(* columns.                                                                *)
(***************************************************************************)
InitFlagit ==
  \E sm \in FreeSeries, S \in SUBSET (RawCols \ {"soil_moisture"}) :
    Start(Restrict(FullTable(sm), S \cup {"soil_moisture"}), NaN, "c01")
NextFlagit ==
  \/ flag_c01 \/ flag_c02 \/ flag_c03
  \/ flag_d01 \/ flag_d02 \/ flag_d03
  \/ flag_d04 \/ flag_d05 \/ flag_d06
SpecFlagit == InitFlagit /\ [][NextFlagit]_vars

\* C8: when flagit(df) arrives at flag_d06 the derivatives are computed, and
\* the run ends without a fatal error.
C8_Original ==
  /\ pc = "d06" => "deriv2" \in DOMAIN df
  /\ pc # "error"

====
